---------------------------- MODULE Spec2Model ----------------------------
(***************************************************************************)
(* The toast lifecycle controller of the component kit (toast.tsx):        *)
(* ToastProvider's store (messages, pendingRemovals), the dispatch facade  *)
(* (toast, toast.info/success/error/loading, toast.dismiss, toast.update)  *)
(* and, for every rendered message, the Toast component: its two shared    *)
(* values, the transition running on them, its dismiss timer and its pan   *)
(* gesture.                                                                *)
(*                                                                         *)
(* A step is one JavaScript task or one UI-thread event.  A task that      *)
(* changes the provider's state contains the re-render React makes of it:  *)
(* components are mounted and unmounted by key, and the lifecycle effect   *)
(* of a component whose type, duration or isPendingRemoval changed is      *)
(* cleaned up and run again.                                               *)
(***************************************************************************)
EXTENDS Integers, Sequences, FiniteSets, TLC

VARIABLES
    messages,         \* ToastProvider: useState<ToastData[]>
    pendingRemovals,  \* ToastProvider: useState<Set<string>>
    comp,             \* mounted Toast components by React key (the id)
    jsQueue,          \* ids whose finishDismiss was posted with runOnJS
    pan,              \* the active pan gesture, if any
    superseded,       \* history: exits that began before the id's last post
    dismissCalls,     \* history: onDismiss calls per mounted incarnation
    posted,           \* history (post-only runs): the ids by last post and
                      \* by last insertion, oldest first
    calls,            \* history: facade calls made so far
    lastOp            \* history: the step that led to this state

vars == << messages, pendingRemovals, comp, jsQueue, pan, superseded,
           dismissCalls, posted, calls, lastOp >>

---------------------------------------------------------------------------
(* Program constants.                                                      *)

ANIMATION_DURATION == 300

INITIAL_POSITION == -100

ANIMATION_BUFFER == 400

MAX_TOASTS == 3

\* Toast's default for an undefined duration prop.
DEFAULT_DURATION == 3000

\* gesture.onEnd: translationY < -50 dismisses.
DISMISS_THRESHOLD == -50

\* Gesture.Pan().activeOffsetY(-10): the pan begins past 10 upwards.
ACTIVE_OFFSET_Y == -10

\* gesture.onUpdate: opacity falls to 0 over 100 of translation.  Opacity is
\* held in hundredths, 0..FADE_DISTANCE.
FADE_DISTANCE == 100

---------------------------------------------------------------------------
(* Bounds and input sets.                                                  *)

\* Facade calls (toast*, dismiss, update) in one run of the queue.
MaxCalls == 4

\* Facade calls in one run of a toast's life.
MaxLifeCalls == 3

\* Posts in one run of posts alone.
MaxPosts == 5

\* Facade calls in one run of an eviction.
MaxEvictCalls == 6

Ids == {"a", "b", "c", "d"}

\* No id: options.id is undefined or empty (options.id || generateId()).
NoId == "<no id>"

Titles == {"t1", "t2"}

\* No title: a call that passes no title (the type requires one, nothing at
\* run time does).
NoTitle == "<no title>"

Types == {"info", "success", "error", "loading"}

\* An optional number is a sequence of length 0 (undefined) or 1.
Undefined == << >>

Some(n) == << n >>

Durations == {Undefined, Some(200)}

\* translationY values a pan reports.
Translations == {-60, -30, 10}

NoPan == [active |-> FALSE, id |-> NoId, translationY |-> 0]

NoData == [none |-> TRUE]

---------------------------------------------------------------------------
(* Sequences.                                                              *)

Range(s) == { s[i] : i \in 1..Len(s) }

\* A slice that keeps everything: a store with it is never capped.
SliceNone(s, n) == s

\* A slice that keeps the first n elements.
SliceFirst(s, n) == IF Len(s) <= n THEN s ELSE SubSeq(s, 1, n)

\* Array.prototype.slice(-n): the last n elements.
SliceLast(s, n) ==
    IF Len(s) <= n THEN s ELSE SubSeq(s, Len(s) - n + 1, Len(s))

IdsOf(msgs) == { msgs[i].id : i \in 1..Len(msgs) }

\* The first message with the given id: what ToastContainer hands the
\* component of that key.
MessageOf(msgs, id) ==
    msgs[CHOOSE i \in 1..Len(msgs) :
            msgs[i].id = id /\ \A j \in 1..(i - 1) : msgs[j].id # id]

---------------------------------------------------------------------------
(* The Toast component.                                                    *)

\* Opacity in hundredths.
FULL_OPACITY == 100

\* useSharedValue(INITIAL_POSITION), useSharedValue(0), useRef(false),
\* useRef<Timeout>(): a component as it is created.  translateY and opacity
\* hold the value last assigned to the shared value or, once a transition is
\* started on it, the value that transition ends at.  anim is the transition
\* last started and not cancelled: "in" towards rest (withSpring(0),
\* withTiming(1)), "out" towards the dismissed position, whose end calls
\* back, "none" after a cancellation, an assignment, or the end of "out".
\* runs counts the runs of the lifecycle effect since the mount, and by
\* holds what has called handleDismiss since then ("timer", "pan").
InitialComp ==
    [ translateY  |-> INITIAL_POSITION,
      opacity     |-> 0,
      anim        |-> "none",
      isAnimating |-> FALSE,
      timerArmed  |-> FALSE,
      timerDelay  |-> 0,
      runs        |-> 0,
      by          |-> {} ]

\* cleanup: clearTimeout, cancelAnimation(translateY), cancelAnimation(opacity).
\* A cancelled exit transition calls back with finished = false, which posts
\* nothing.
Cleanup(c) ==
    [c EXCEPT !.timerArmed = FALSE, !.timerDelay = 0, !.anim = "none"]

\* handleDismiss, called by trigger: cleanup, then the exit transition on
\* both shared values.
HandleDismiss(c, trigger) ==
    [Cleanup(c) EXCEPT !.anim = "out", !.translateY = INITIAL_POSITION,
                       !.opacity = 0, !.by = @ \cup {trigger}]

\* Toast's parameter default: duration = 3000.
DurationProp(duration) ==
    IF duration = Undefined THEN DEFAULT_DURATION ELSE duration[1]

\* The props ToastContainer passes that the lifecycle effect depends on.
Props(msgs, pend, id) ==
    LET m == MessageOf(msgs, id)
    IN  [ type             |-> m.type,
          duration         |-> DurationProp(m.duration),
          isPendingRemoval |-> id \in pend ]

\* A timer condition that does not look at the type.
TimerWantedAnyType(p) == p.duration > 0 \/ p.isPendingRemoval

\* The timer's condition and its delay, as the effect computes them.
TimerWanted(p) ==
    (p.type # "loading" /\ p.duration > 0) \/ p.isPendingRemoval

TimerDelay(p) ==
    IF p.isPendingRemoval THEN 0 ELSE p.duration - ANIMATION_BUFFER

\* The body of the lifecycle effect: the entrance transition, and the
\* dismiss timer when the condition holds.
Effect(c, p) ==
    LET entering == [c EXCEPT !.anim = "in", !.translateY = 0,
                              !.opacity = FULL_OPACITY, !.runs = @ + 1]
    IN  IF TimerWanted(p)
        THEN [entering EXCEPT !.timerArmed = TRUE, !.timerDelay = TimerDelay(p)]
        ELSE entering

\* A mounted component on a re-render: the effect's dependencies that can
\* change are type, duration and isPendingRemoval (handleDismiss and cleanup
\* are stable for a key); when one differs the effect is cleaned up and run.
Rerender(c, old, new) ==
    IF old = new THEN c ELSE Effect(Cleanup(c), new)

\* React's reconciliation of ToastContainer's children by key: a key that
\* appears is mounted and its effect run, a key that stays is re-rendered, a
\* key that is gone is unmounted (its effect's cleanup runs and the component
\* is dropped).
Render(msgs2, pend2, msgs, pend, cs) ==
    [ id \in IdsOf(msgs2) |->
        IF id \in DOMAIN cs
        THEN Rerender(cs[id], Props(msgs, pend, id), Props(msgs2, pend2, id))
        ELSE Effect(InitialComp, Props(msgs2, pend2, id)) ]

\* An onUpdate whose fade is not clamped.
OnUpdateUnclamped(c, t) ==
    IF t < 0
    THEN [c EXCEPT !.translateY = t, !.opacity = FULL_OPACITY + t,
                   !.anim = "none"]
    ELSE c

\* gesture.onUpdate: an upward translation is assigned to translateY and
\* fades the opacity; assigning a shared value ends the transition running
\* on it.
OnUpdate(c, t) ==
    IF t < 0
    THEN [c EXCEPT !.translateY = t,
                   !.opacity = FULL_OPACITY
                               - (IF -t < FADE_DISTANCE THEN -t ELSE FADE_DISTANCE),
                   !.anim = "none"]
    ELSE c

\* A release that dismisses at the threshold too.
OnEndInclusive(c, t) ==
    IF t <= DISMISS_THRESHOLD
    THEN HandleDismiss(c, "pan")
    ELSE [c EXCEPT !.anim = "in", !.translateY = 0, !.opacity = FULL_OPACITY]

\* gesture.onEnd: past the threshold handleDismiss, else spring back.
OnEnd(c, t) ==
    IF t < DISMISS_THRESHOLD
    THEN HandleDismiss(c, "pan")
    ELSE [c EXCEPT !.anim = "in", !.translateY = 0, !.opacity = FULL_OPACITY]

---------------------------------------------------------------------------
(* ToastProvider's store.                                                  *)

\* A removeToast that drops the oldest record, whatever the id.
removeToastOldest(state, id) == IF state = << >> THEN state ELSE Tail(state)

\* A removeToast that filters nothing: the dismissed record stays.
removeToastKeeps(state, id) == state

\* removeToast: setMessages(state => state.filter(msg => msg.id !== id))
removeToastMessages(state, id) ==
    LET Keep(msg) == msg.id # id IN SelectSeq(state, Keep)

\* removeToast: setPendingRemovals(prev => prev minus id)
removeToastPending(prev, id) == prev \ {id}

\* dismissToast: setPendingRemovals(prev => prev plus id)
dismissToast(prev, id) == prev \cup {id}

\* {...msg, ...data}
Spread(msg, data) ==
    [ f \in (DOMAIN msg) \cup (DOMAIN data) |->
        IF f \in DOMAIN data THEN data[f] ELSE msg[f] ]

\* updateToast: state.map(msg => msg.id === id ? {...msg, ...data} : msg)
updateToast(state, id, data) ==
    LET Upd(msg) == IF msg.id = id THEN Spread(msg, data) ELSE msg
    IN  [ i \in 1..Len(state) |-> Upd(state[i]) ]

\* An addToast that leaves pendingRemovals alone.
addToastPendingKeeps(prev, toastData) == prev

\* addToast: setPendingRemovals(prev => prev minus toastData.id)
addToastPending(prev, toastData) == prev \ {toastData.id}

\* An addToast that takes a re-posted id out and appends it: the re-post
\* renews the record's place in the queue.
addToastMovesToEnd(state, toastData) ==
    SliceLast(Append(removeToastMessages(state, toastData.id), toastData),
              MAX_TOASTS)

\* addToast: the setMessages updater.
addToastMessages(state, toastData) ==
    IF toastData.id \in IdsOf(state)
    THEN LET Put(msg) == IF msg.id = toastData.id THEN toastData ELSE msg
         IN  [ i \in 1..Len(state) |-> Put(state[i]) ]
    ELSE SliceLast(Append(state, toastData), MAX_TOASTS)

\* The facade's options for each entry point: {...data, type} and, for
\* toast.loading, duration: 0 after the spread.
FacadeOptions(kind, data) ==
    IF kind = "loading"
    THEN [ id |-> data.id, title |-> data.title, type |-> "loading",
           duration |-> Some(0) ]
    ELSE [ id |-> data.id, title |-> data.title,
           type |-> IF kind = "toast" THEN "info" ELSE kind,
           duration |-> data.duration ]

\* addToast: toastData = {...options, id: options.id || generateId()};
\* generated is what generateId() returns.
ToastDataOf(options, generated) ==
    [ options EXCEPT !.id = IF options.id = NoId THEN generated ELSE options.id ]

\* addToast: return toastData.id
addToastReturn(toastData) == toastData.id

---------------------------------------------------------------------------
(* History.                                                                *)

\* A step: its name, the id it is about (for a post the id addToast
\* returns), whether that id was in messages
\* before it, the caller's data, the ids that left messages in it, for a
\* post whether the id was in pendingRemovals before it ("pending"), and for
\* finishDismiss the mark of the exit that posted it, the number of onDismiss
\* calls its component has had, and what had asked for the dismissal.
Op(op, id, known, data, left, stale, nth, by) ==
    [ op |-> op, id |-> id, known |-> known, data |-> data, left |-> left,
      stale |-> stale, nth |-> nth, by |-> by ]

\* A step of a component: nothing leaves messages.
CompOp(op, id) == Op(op, id, TRUE, NoData, {}, "no", 0, {})

\* What has asked for the dismissal of id: its component's handleDismiss
\* callers, and toast.dismiss while the id is pending.
AskedBy(cs, pend, id) ==
    (IF id \in DOMAIN cs THEN cs[id].by ELSE {})
    \cup (IF id \in pend THEN {"dismiss"} ELSE {})

\* Whether an exit of id is under way: its transition runs or its
\* finishDismiss is queued.
ExitUnderWay(cs, q, id) ==
    (id \in DOMAIN cs /\ cs[id].anim = "out") \/ id \in q

\* dismissCalls after a step: the count is kept while the component that
\* was called lives or a call is queued.
Counted(dc, cs2, q2) ==
    [ id \in Ids |-> IF id \in DOMAIN cs2 \/ id \in q2 THEN dc[id] ELSE 0 ]

\* The sequence of distinct ids s with id made its last.
MoveToEnd(s, id) ==
    LET Other(x) == x # id IN Append(SelectSeq(s, Other), id)

\* posted after a post of id: every post renews recent, a post of an id that
\* was not in messages renews inserted.
Logged(log, id, known) ==
    [ recent   |-> MoveToEnd(log.recent, id),
      inserted |-> IF known THEN log.inserted ELSE MoveToEnd(log.inserted, id) ]

\* superseded after a step: a mark lasts as long as the exit it is about.
Lasting(sup, cs2, q2) ==
    [ id \in Ids |-> IF ExitUnderWay(cs2, q2, id) THEN sup[id] ELSE "no" ]

---------------------------------------------------------------------------
(* Steps.                                                                  *)

Init ==
    /\ messages = << >>
    /\ pendingRemovals = {}
    /\ comp = << >>
    /\ jsQueue = {}
    /\ pan = NoPan
    /\ superseded = [ id \in Ids |-> "no" ]
    /\ dismissCalls = [ id \in Ids |-> 0 ]
    /\ posted = [ recent |-> << >>, inserted |-> << >> ]
    /\ calls = 0
    /\ lastOp = Op("init", NoId, FALSE, NoData, {}, "no", 0, {})

\* The provider's state is set and the tree re-rendered.
Commit(msgs2, pend2) ==
    LET cs2 == Render(msgs2, pend2, messages, pendingRemovals, comp)
    IN  /\ messages' = msgs2
        /\ pendingRemovals' = pend2
        /\ comp' = cs2
        /\ pan' = IF pan.active /\ pan.id \notin DOMAIN cs2 THEN NoPan ELSE pan
        /\ UNCHANGED dismissCalls

\* toast(data), toast.info(data), toast.success(data), toast.error(data),
\* toast.loading(data): addToast of the facade's options.
Post(kind, data, generated) ==
    LET toastData == ToastDataOf(FacadeOptions(kind, data), generated)
        id        == addToastReturn(toastData)
        known     == id \in IdsOf(messages)
        msgs2     == addToastMessages(messages, toastData)
        pend2     == addToastPending(pendingRemovals, toastData)
        cs2       == Render(msgs2, pend2, messages, pendingRemovals, comp)
        mark      == IF ~known \/ superseded[id] # "no" THEN superseded[id]
                     ELSE IF id \in pendingRemovals THEN "pending" ELSE "exit"
    IN  /\ calls' = calls + 1
        /\ Commit(msgs2, pend2)
        /\ superseded' = Lasting([superseded EXCEPT ![id] = mark], cs2, jsQueue)
        /\ lastOp' = Op(kind, id, known, data, IdsOf(messages) \ IdsOf(msgs2),
                        IF id \in pendingRemovals THEN "pending" ELSE "no",
                        0, {})
        /\ UNCHANGED jsQueue

\* toast.dismiss(id)
Dismiss(id) ==
    LET pend2 == dismissToast(pendingRemovals, id)
        cs2   == Render(messages, pend2, messages, pendingRemovals, comp)
    IN  /\ calls' = calls + 1
        /\ Commit(messages, pend2)
        /\ superseded' = Lasting(superseded, cs2, jsQueue)
        /\ lastOp' = Op("dismiss", id, id \in IdsOf(messages), NoData, {},
                        "no", 0, {})
        /\ UNCHANGED jsQueue

\* toast.update(id, data)
Update(id, data) ==
    LET msgs2 == updateToast(messages, id, data)
        cs2   == Render(msgs2, pendingRemovals, messages, pendingRemovals, comp)
    IN  /\ calls' = calls + 1
        /\ Commit(msgs2, pendingRemovals)
        /\ superseded' = Lasting(superseded, cs2, jsQueue)
        /\ lastOp' = Op("update", id, id \in IdsOf(messages), data,
                        IdsOf(messages) \ IdsOf(msgs2), "no", 0, {})
        /\ UNCHANGED jsQueue

\* A component step: the provider's state is untouched.
Local(id, c2) ==
    /\ comp' = [comp EXCEPT ![id] = c2]
    /\ UNCHANGED << messages, pendingRemovals, dismissCalls, posted, calls >>

\* The dismiss timer's callback: if (!isAnimatingRef.current) handleDismiss().
\* It begins a new exit, so a mark on a cancelled one is dropped.
TimerFire(id) ==
    /\ id \in DOMAIN comp
    /\ comp[id].timerArmed
    /\ LET fired == [comp[id] EXCEPT !.timerArmed = FALSE, !.timerDelay = 0]
           c2    == IF ~fired.isAnimating THEN HandleDismiss(fired, "timer")
                    ELSE fired
       IN  /\ Local(id, c2)
           /\ superseded' =
                 IF id \in jsQueue THEN superseded
                 ELSE [superseded EXCEPT ![id] = "no"]
    /\ lastOp' = CompOp("timer", id)
    /\ UNCHANGED << jsQueue, pan >>

\* The exit transition ends with finished = true on the UI thread:
\* runOnJS(finishDismiss)() posts the call to the JS thread.  A posted call
\* runs before a later transition of ANIMATION_DURATION can end, so at most
\* one is queued per id.
ExitAnimFinished(id) ==
    /\ id \in DOMAIN comp
    /\ comp[id].anim = "out"
    /\ id \notin jsQueue
    /\ Local(id, [comp[id] EXCEPT !.anim = "none"])
    /\ jsQueue' = jsQueue \cup {id}
    /\ lastOp' = CompOp("animOut", id)
    /\ UNCHANGED << pan, superseded >>

\* finishDismiss on the JS thread: cleanup(), onDismiss(id), which is
\* removeToast; the re-render unmounts the component.
RunFinishDismiss(id) ==
    LET msgs2 == removeToastMessages(messages, id)
        pend2 == removeToastPending(pendingRemovals, id)
        cs2   == Render(msgs2, pend2, messages, pendingRemovals,
                        IF id \in DOMAIN comp
                        THEN [comp EXCEPT ![id] = Cleanup(comp[id])] ELSE comp)
    IN  /\ id \in jsQueue
        /\ jsQueue' = jsQueue \ {id}
        /\ messages' = msgs2
        /\ pendingRemovals' = pend2
        /\ comp' = cs2
        /\ pan' = IF pan.active /\ pan.id \notin DOMAIN cs2 THEN NoPan ELSE pan
        /\ dismissCalls' =
              Counted([dismissCalls EXCEPT ![id] = @ + 1], cs2, jsQueue \ {id})
        /\ superseded' = Lasting(superseded, cs2, jsQueue \ {id})
        /\ lastOp' = Op("finishDismiss", id, id \in IdsOf(messages), NoData,
                        IdsOf(messages) \ IdsOf(msgs2), superseded[id],
                        dismissCalls[id] + 1,
                        AskedBy(comp, pendingRemovals, id))
        /\ UNCHANGED << posted, calls >>

\* A pan event on a toast, onStart (once past activeOffsetY) or onUpdate.
PanUpdate(id, t) ==
    /\ id \in DOMAIN comp
    /\ IF pan.active THEN pan.id = id ELSE t < ACTIVE_OFFSET_Y
    /\ pan' = [active |-> TRUE, id |-> id, translationY |-> t]
    /\ Local(id, OnUpdate(comp[id], t))
    /\ superseded' = Lasting(superseded, comp', jsQueue)
    /\ lastOp' = CompOp("panUpdate", id)
    /\ UNCHANGED jsQueue

\* The finger is lifted: gesture.onEnd with the last translation.
PanEnd ==
    /\ pan.active
    /\ pan' = NoPan
    /\ Local(pan.id, OnEnd(comp[pan.id], pan.translationY))
    /\ superseded' =
          IF pan.translationY < DISMISS_THRESHOLD /\ pan.id \notin jsQueue
          THEN [superseded EXCEPT ![pan.id] = "no"]
          ELSE Lasting(superseded, comp', jsQueue)
    /\ lastOp' = [ CompOp("panEnd", pan.id) EXCEPT
                      !.data = [ translationY |-> pan.translationY ] ]
    /\ UNCHANGED jsQueue

---------------------------------------------------------------------------
(* Inputs.  The code treats every id alike, so one id is given a choice of *)
(* contents and the gestures, and the others a fixed content: they fill    *)
(* the list and are dismissed, evicted and overwritten.                    *)

Kinds == {"toast", "info", "success", "error", "loading"}

RichIds == {"a"}

\* ToastOptions a caller passes: any of titles and durations for a rich id,
\* the first title and no duration for the ids of others and for no id.
OptionsOf(titles, durations, others) ==
    [ id : RichIds, title : titles, duration : durations ]
    \cup [ id : others, title : {"t1"}, duration : {Undefined} ]

\* Partial<ToastData> a caller passes to toast.update.
PartialsOf(titles, durations, types, ids) ==
    [ title : titles ] \cup [ duration : durations \ {Undefined} ]
    \cup [ type : types ] \cup [ id : ids ]
    \cup [ title : titles, duration : durations \ {Undefined} ]

\* The steps, for the inputs in: in.options and in.kinds for the posts of a
\* rich id (the others are posted with toast.loading), in.updated and
\* in.partials for toast.update, in.generated for what generateId() returns when the caller
\* gives no id, in.dismissed for toast.dismiss, in.translations for the pan,
\* in.limit facade calls.
NextOf(in) ==
    \/ \E data \in in.options :
        \E kind \in (IF data.id \in RichIds THEN in.kinds ELSE {"loading"}),
           generated \in (IF data.id = NoId THEN in.generated ELSE {NoId}) :
          /\ calls < in.limit
          /\ Post(kind, data, generated)
          /\ UNCHANGED posted
    \/ \E id \in in.dismissed :
          calls < in.limit /\ Dismiss(id) /\ UNCHANGED posted
    \/ \E id \in in.updated, data \in in.partials :
          calls < in.limit /\ Update(id, data) /\ UNCHANGED posted
    \/ \E id \in Ids : TimerFire(id)
    \/ \E id \in Ids : ExitAnimFinished(id)
    \/ \E id \in Ids : RunFinishDismiss(id)
    \/ \E id \in RichIds, t \in in.translations : PanUpdate(id, t)
    \/ PanEnd

\* The queue: four ids for three places.
QueueInputs ==
    [ options      |-> OptionsOf({"t1"}, {Undefined}, (Ids \ RichIds) \cup {NoId}),
      kinds        |-> {"toast"},
      updated      |-> {"a", "b"},
      partials     |-> PartialsOf({"t2"}, {Undefined}, {"loading"}, {"a", "b"}),
      generated    |-> {"d"},
      dismissed    |-> {"a", "b"},
      translations |-> {-60},
      limit        |-> MaxCalls ]

Next == NextOf(QueueInputs)

Spec == Init /\ [][Next]_vars

\* One toast's life, with every entry point, duration and translation, and
\* one other toast beside it.
LifeInputs ==
    [ options      |-> OptionsOf(Titles, Durations, {"b"}),
      kinds        |-> {"toast", "loading"},
      updated      |-> RichIds,
      partials     |-> PartialsOf({"t2"}, Durations, {"error", "loading"}, {"b"}),
      generated    |-> {"b"},
      dismissed    |-> {"a", "b"},
      translations |-> Translations,
      limit        |-> MaxLifeCalls ]

LifeNext == NextOf(LifeInputs)

LifeSpec == Init /\ [][LifeNext]_vars

\* An eviction: one toast that is dismissed, retitled and dragged, and three
\* others posted after it.
EvictInputs ==
    [ options      |-> OptionsOf({"t1"}, {Undefined}, Ids \ RichIds),
      kinds        |-> {"toast"},
      updated      |-> RichIds,
      partials     |-> PartialsOf({"t2"}, {Undefined}, {}, {}),
      generated    |-> {},
      dismissed    |-> RichIds,
      translations |-> {-60},
      limit        |-> MaxEvictCalls ]

EvictNext == NextOf(EvictInputs)

EvictSpec == Init /\ [][EvictNext]_vars

\* Posts alone, through every entry point: no timer fires, nothing is
\* dismissed.
PostInputs ==
    [ options   |-> OptionsOf(Titles \cup {NoTitle}, Durations,
                              (Ids \ RichIds) \cup {NoId}),
      kinds     |-> Kinds,
      generated |-> Ids,
      limit     |-> MaxPosts ]

PostNext ==
    \E data \in PostInputs.options :
      \E kind \in (IF data.id \in RichIds THEN PostInputs.kinds ELSE {"loading"}),
         generated \in (IF data.id = NoId THEN PostInputs.generated ELSE {NoId}) :
        /\ calls < PostInputs.limit
        /\ Post(kind, data, generated)
        /\ posted' = Logged(posted, lastOp'.id, lastOp'.known)

PostSpec == Init /\ [][PostNext]_vars

---------------------------------------------------------------------------
(* Fairness: an armed timer fires, a running exit transition ends, a       *)
(* posted call runs, a finger on the screen is lifted.  Nothing makes a    *)
(* caller call or a user touch.                                            *)

Fairness ==
    /\ \A id \in Ids : WF_vars(TimerFire(id))
    /\ \A id \in Ids : WF_vars(ExitAnimFinished(id))
    /\ \A id \in Ids : WF_vars(RunFinishDismiss(id))
    /\ WF_vars(PanEnd)

FairLifeSpec == LifeSpec /\ Fairness

\* One toast's life in which every release of the pan is short of the
\* threshold.
SnapInputs == [ LifeInputs EXCEPT !.translations = {-30, 10} ]

SnapNext == NextOf(SnapInputs)

SnapSpec == Init /\ [][SnapNext]_vars

FairSnapSpec == SnapSpec /\ Fairness

\* One toast's life with releases at the threshold and one past it.
EdgeInputs == [ LifeInputs EXCEPT !.translations = {-51, -50, 10} ]

EdgeNext == NextOf(EdgeInputs)

EdgeSpec == Init /\ [][EdgeNext]_vars

\* One toast's life with a drag beyond the fade distance, one within it and
\* one downwards.
DragInputs == [ LifeInputs EXCEPT !.translations = {-150, -30, 10} ]

DragNext == NextOf(DragInputs)

DragSpec == Init /\ [][DragNext]_vars

---------------------------------------------------------------------------
(* The claims.                                                             *)

Posts == Kinds

IdSeq(msgs) == [ i \in 1..Len(msgs) |-> msgs[i].id ]

\* C1: in every reachable state messages holds at most MAX_TOASTS records,
\* whatever was posted, dismissed or updated and however the timers, the
\* gestures and the exit transitions interleaved.
C1_AtMostMaxToasts == Len(messages) <= MAX_TOASTS

\* C1, its case: a post of a new id found the list full and an id left it.
C1_Witness ==
    /\ lastOp.op \in Posts
    /\ ~lastOp.known
    /\ lastOp.left # {}
    /\ Len(messages) = MAX_TOASTS

\* C2, as stated: after posts alone (re-posts of a visible id among them)
\* the ids in messages are the MAX_TOASTS most recently posted.
C2_MostRecentlyPosted ==
    IdsOf(messages) = Range(SliceLast(posted.recent, MAX_TOASTS))

\* C2, amended: after posts alone the ids in messages are, in order, the
\* MAX_TOASTS most recently inserted: a post of an id that is in messages
\* keeps its place and does not renew it, and the oldest by insertion goes
\* first.
C2_MostRecentlyInserted ==
    IdSeq(messages) = SliceLast(posted.inserted, MAX_TOASTS)

\* C2, its case: a post evicted an id that had been re-posted after the ids
\* that stayed.
C2_Witness ==
    /\ lastOp.op \in Posts
    /\ lastOp.left # {}
    /\ \E i \in 1..Len(posted.recent) :
          /\ posted.recent[i] \in lastOp.left
          /\ i > Len(posted.recent) - MAX_TOASTS

\* C3: no two records of messages have the same id.
C3_UniqueIds ==
    \A i, j \in 1..Len(messages) : messages[i].id = messages[j].id => i = j

\* C4: a post of an id that is in messages and not in pendingRemovals keeps
\* the length of messages and the id at every position, evicts nothing, and
\* leaves the record's component as it was: no second run of the effect, the
\* same transition, the same timer.
C4_RepostInPlace ==
    [][ (lastOp'.op \in Posts /\ lastOp'.known
            /\ lastOp'.id \notin pendingRemovals) =>
          /\ IdSeq(messages') = IdSeq(messages)
          /\ lastOp'.left = {}
          /\ comp' = comp ]_vars

\* C5: no record is removed by an exit that began before a post of its id
\* that found the id in pendingRemovals.
C5_RepostOfPendingStays ==
    ~(lastOp.op = "finishDismiss" /\ lastOp.known /\ lastOp.stale = "pending")

\* C6: no record is removed by an exit that began before a post of its id,
\* whatever began the exit and whether its callback was queued or not.
C6_RepostWins ==
    (lastOp.op = "finishDismiss" /\ lastOp.known) => lastOp.stale = "no"

\* C7: a record that is in messages and in pendingRemovals is eventually no
\* longer so (it is removed, or re-posted), whatever the gestures do.
C7_DismissedIsRemoved ==
    \A id \in Ids :
        (id \in IdsOf(messages) /\ id \in pendingRemovals)
            ~> ~(id \in IdsOf(messages) /\ id \in pendingRemovals)

C9_DismissUnknownNoOp ==
    [][ (lastOp'.op = "dismiss" /\ ~lastOp'.known) =>
          /\ messages' = messages
          /\ pendingRemovals' = pendingRemovals ]_vars

\* C10: toast.update(id, data) changes one record at most, the one of that
\* id, giving it the fields of data and leaving its other fields as they
\* were; the length of messages, every other record at its position and
\* pendingRemovals are unchanged; with an id that is not in messages it
\* changes nothing.
C10_UpdateMergesOne ==
    [][ lastOp'.op = "update" =>
          /\ Len(messages') = Len(messages)
          /\ pendingRemovals' = pendingRemovals
          /\ \A i \in 1..Len(messages) :
                messages'[i] # messages[i] =>
                   /\ messages[i].id = lastOp'.id
                   /\ messages'[i] = Spread(messages[i], lastOp'.data)
                   /\ \A j \in 1..Len(messages) :
                         messages'[j] # messages[j] => j = i
          /\ (~lastOp'.known => messages' = messages) ]_vars

\* C11: toast.update of a visible id, with any fields but the id, leaves the
\* record's component as it was: the timer armed or not with the same delay,
\* the same transition, no further run of the lifecycle effect.
C11_UpdateKeepsLifecycle ==
    [][ (lastOp'.op = "update" /\ lastOp'.known
            /\ "id" \notin DOMAIN lastOp'.data
            /\ lastOp'.id \in DOMAIN comp) =>
          comp'[lastOp'.id] = comp[lastOp'.id] ]_vars

\* A mounted record of type loading that is not in pendingRemovals.
LoadingAtRest(id) ==
    /\ id \in DOMAIN comp
    /\ id \in IdsOf(messages)
    /\ MessageOf(messages, id).type = "loading"
    /\ id \notin pendingRemovals

\* C12, as stated: a loading record that is not pending has no timer armed
\* and no step starts its exit, neither its timer nor a release of the pan.
C12_LoadingNeverExits ==
    [][ \A id \in Ids : LoadingAtRest(id) =>
          /\ ~comp[id].timerArmed
          /\ ~(lastOp'.op \in {"timer", "panEnd"} /\ lastOp'.id = id
                 /\ id \in DOMAIN comp' /\ comp'[id].anim = "out") ]_vars

\* C12, amended: a loading record that is not pending has no timer armed,
\* its timer never fires, and its exit is started by nothing but a release
\* of the pan past the threshold.
C12_LoadingNoTimerExit ==
    [][ \A id \in Ids : LoadingAtRest(id) =>
          /\ ~comp[id].timerArmed
          /\ ~(lastOp'.op = "timer" /\ lastOp'.id = id)
          /\ (id \in DOMAIN comp' /\ comp'[id].anim = "out"
                 /\ comp[id].anim # "out")
               => (lastOp'.op = "panEnd" /\ lastOp'.id = id
                     /\ pan.translationY < DISMISS_THRESHOLD) ]_vars

\* C12, its case: a loading record that nobody dismissed has been dragged
\* past the threshold and released, and its exit runs.
C12_Witness ==
    /\ lastOp.op = "panEnd"
    /\ LoadingAtRest(lastOp.id)
    /\ comp[lastOp.id].anim = "out"
    /\ comp[lastOp.id].by = {"pan"}

\* C13: after toast.loading the record has type loading, and the duration
\* the caller gave when one was given, 0 when none was.
C13_LoadingKeepsDuration ==
    lastOp.op = "loading" =>
        LET m == MessageOf(messages, lastOp.id)
        IN  /\ m.type = "loading"
            /\ m.duration = IF lastOp.data.duration = Undefined
                            THEN Some(0) ELSE lastOp.data.duration

\* C14: removeToast is idempotent: in every reachable state and for every
\* id, removing the id from what a removal of it left changes nothing; an id
\* that is in neither messages nor pendingRemovals is removed without a
\* change; and a finishDismiss that finds its id gone takes nothing out of
\* messages.
C14_RemoveIdempotent ==
    /\ \A id \in Ids :
          LET m1 == removeToastMessages(messages, id)
              p1 == removeToastPending(pendingRemovals, id)
          IN  /\ removeToastMessages(m1, id) = m1
              /\ removeToastPending(p1, id) = p1
              /\ id \notin IdsOf(m1)
              /\ id \notin p1
              /\ (id \notin IdsOf(messages) => m1 = messages)
              /\ (id \notin pendingRemovals => p1 = pendingRemovals)
    /\ (lastOp.op = "finishDismiss" /\ ~lastOp.known) => lastOp.left = {}

\* C14, its case: finishDismiss has run for an id that was no longer in
\* messages, beside records that stayed.
C14_Witness ==
    /\ lastOp.op = "finishDismiss"
    /\ ~lastOp.known
    /\ messages # << >>

\* C15: a post returns the id the caller gave, or the generated one when the
\* caller gave none, and after it messages holds a record of that id with the
\* caller's title and, for toast(), the type info.
C15_PostReturnsId ==
    lastOp.op \in Posts =>
        /\ IF lastOp.data.id # NoId
           THEN lastOp.id = lastOp.data.id
           ELSE lastOp.id \in PostInputs.generated
        /\ lastOp.id \in IdsOf(messages)
        /\ MessageOf(messages, lastOp.id).title = lastOp.data.title
        /\ (lastOp.op \in {"toast", "info"}
              => MessageOf(messages, lastOp.id).type = "info")

\* C15, its case: a post without an id has put a record of a generated id
\* into a full list.
C15_Witness ==
    /\ lastOp.op \in Posts
    /\ lastOp.data.id = NoId
    /\ ~lastOp.known
    /\ lastOp.left # {}
    /\ messages[Len(messages)].id = lastOp.id

\* C16: a post without a title adds no record: messages and pendingRemovals
\* are as they were.
C16_NoTitleRejected ==
    [][ (lastOp'.op \in Posts /\ lastOp'.data.title = NoTitle) =>
          /\ messages' = messages
          /\ pendingRemovals' = pendingRemovals ]_vars

\* C17: every id in pendingRemovals is the id of a record in messages.
C17_PendingAreVisible == pendingRemovals \subseteq IdsOf(messages)

\* C18: a record leaves messages in a finishDismiss of its id or in a post
\* that finds the list full, and the id that left is then in neither
\* messages nor pendingRemovals.
C18_LeavesThroughRemove ==
    lastOp.left # {} =>
        /\ lastOp.op \in Posts \cup {"finishDismiss"}
        /\ lastOp.left \cap IdsOf(messages) = {}
        /\ lastOp.left \cap pendingRemovals = {}

\* C19: while a record's exit transition runs, a further trigger for that
\* record (its timer's callback, a release of the pan past the threshold,
\* toast.dismiss of its id) leaves its component as it was: the transition is
\* neither cancelled nor started again, and nothing else is started.
C19_SecondTriggerNoOp ==
    [][ \A id \in Ids :
          ( /\ id \in DOMAIN comp
            /\ comp[id].anim = "out"
            /\ lastOp'.id = id
            /\ \/ lastOp'.op \in {"timer", "dismiss"}
               \/ lastOp'.op = "panEnd" /\ pan.translationY < DISMISS_THRESHOLD )
          => (id \in DOMAIN comp' /\ comp'[id] = comp[id]) ]_vars

\* C20: while a record's exit transition runs no pan event changes its
\* component: a drag neither moves it nor ends the transition, and a release
\* neither springs it back nor starts anything.
C20_NoPanDuringExit ==
    [][ \A id \in Ids :
          ( /\ id \in DOMAIN comp
            /\ comp[id].anim = "out"
            /\ lastOp'.id = id
            /\ lastOp'.op \in {"panUpdate", "panEnd"} )
          => (id \in DOMAIN comp' /\ comp'[id] = comp[id]) ]_vars

\* A record in messages whose timer condition holds by its type and
\* duration.
Expiring(id) ==
    /\ id \in IdsOf(messages)
    /\ MessageOf(messages, id).type # "loading"
    /\ DurationProp(MessageOf(messages, id).duration) > 0

\* C21: when every release of the pan is short of the threshold, a record
\* that is not loading and has a positive duration eventually leaves messages
\* (or stops being such a record), whatever is dragged and released.
C21_ExpiringIsRemoved ==
    \A id \in Ids : Expiring(id) ~> ~Expiring(id)

\* C22: only the records in messages have a component, hence a timer or a
\* transition, and no timer callback, end of an exit transition or
\* finishDismiss runs for an id that is not in messages when it runs.
C22_NothingRunsForGone ==
    /\ DOMAIN comp = IdsOf(messages)
    /\ (lastOp.op \in {"timer", "animOut", "finishDismiss"} => lastOp.known)

\* C23: whenever the lifecycle effect of a record has run (at its mount, or
\* again after a change of its dependencies), its timer is armed exactly when
\* the type is not loading and the duration is positive, or the id is in
\* pendingRemovals; the delay is 0 for a pending id and otherwise the
\* duration less ANIMATION_BUFFER, or 0 where that would be negative.
C23_TimerAndDelay ==
    [][ \A id \in Ids :
          ( /\ id \in DOMAIN comp'
            /\ (id \notin DOMAIN comp \/ comp'[id].runs # comp[id].runs) )
          => LET p == Props(messages', pendingRemovals', id)
                 c == comp'[id]
             IN  /\ c.timerArmed <=>
                       ((p.type # "loading" /\ p.duration > 0)
                          \/ p.isPendingRemoval)
                 /\ c.timerArmed =>
                       c.timerDelay =
                          IF p.isPendingRemoval THEN 0
                          ELSE IF p.duration > ANIMATION_BUFFER
                               THEN p.duration - ANIMATION_BUFFER ELSE 0 ]_vars

\* C24: a release of the pan starts the record's exit exactly when the
\* upward translation is more than 50; otherwise the record is at
\* translateY 0 and full opacity (the end of the spring back), messages and
\* pendingRemovals are as they were, and the timer is armed or not as it was,
\* with the same delay.
C24_ReleaseAtThreshold ==
    [][ lastOp'.op = "panEnd" =>
          LET id == lastOp'.id
              t  == lastOp'.data.translationY
          IN  /\ id \in DOMAIN comp'
              /\ messages' = messages
              /\ pendingRemovals' = pendingRemovals
              /\ (comp'[id].anim = "out" /\ "pan" \in comp'[id].by)
                    <=> (-t > 50)
              /\ ~(-t > 50) =>
                    /\ comp'[id].translateY = 0
                    /\ comp'[id].opacity = FULL_OPACITY
                    /\ comp'[id].anim = "in"
                    /\ comp'[id].timerArmed = comp[id].timerArmed
                    /\ comp'[id].timerDelay = comp[id].timerDelay ]_vars

\* C24, its case: a toast dragged up by exactly 50 has been released: it is
\* back at rest with its timer still armed.
C24_Witness ==
    /\ lastOp.op = "panEnd"
    /\ lastOp.data.translationY = -50
    /\ comp[lastOp.id].timerArmed
    /\ comp[lastOp.id].anim = "in"

\* C25: a pan event with an upward translation t sets translateY to t and
\* the opacity to 1 - min(|t| / 100, 1) (in hundredths); one with a downward
\* translation changes neither; the opacity is within [0, 1] after every pan
\* event.
C25_DragFollowsAndFades ==
    [][ lastOp'.op = "panUpdate" =>
          LET id == lastOp'.id
              t  == pan'.translationY
              d  == IF t < 0 THEN -t ELSE t
          IN  /\ id \in DOMAIN comp /\ id \in DOMAIN comp'
              /\ IF t < 0
                 THEN /\ comp'[id].translateY = t
                      /\ comp'[id].opacity =
                            FULL_OPACITY - (IF d < 100 THEN d ELSE 100)
                 ELSE /\ comp'[id].translateY = comp[id].translateY
                      /\ comp'[id].opacity = comp[id].opacity
              /\ comp'[id].opacity \in 0..FULL_OPACITY ]_vars

\* C25, its case: a toast has been dragged up by 150, beyond the fade
\* distance: it is at -150 with opacity 0.
C25_Witness ==
    /\ lastOp.op = "panUpdate"
    /\ pan.active
    /\ pan.translationY = -150
    /\ comp[lastOp.id].translateY = -150
    /\ comp[lastOp.id].opacity = 0

\* C26: after a post the id posted is not in pendingRemovals, its record is
\* mounted as one that is not pending, and a timer armed for it has the delay
\* of its duration, not the 0 of a pending removal.
C26_PostClearsPending ==
    lastOp.op \in Posts =>
        /\ lastOp.id \notin pendingRemovals
        /\ lastOp.id \in DOMAIN comp
        /\ ~Props(messages, pendingRemovals, lastOp.id).isPendingRemoval
        /\ comp[lastOp.id].timerArmed =>
              comp[lastOp.id].timerDelay =
                 DurationProp(MessageOf(messages, lastOp.id).duration)
                    - ANIMATION_BUFFER

\* C26, its case: an id that was in pendingRemovals without a record in
\* messages has been posted, and its timer is armed.
C26_Witness ==
    /\ lastOp.op \in Posts
    /\ ~lastOp.known
    /\ lastOp.stale = "pending"
    /\ comp[lastOp.id].timerArmed

\* Some record of id x stands before some record of id y in msgs.
Before(msgs, x, y) ==
    \E i, j \in 1..Len(msgs) : i < j /\ msgs[i].id = x /\ msgs[j].id = y

\* C27: no step changes the relative order of two ids that are in messages
\* before and after it, and a post of an id that was not in messages puts its
\* record last.
C27_OrderKept ==
    [][ /\ \A x, y \in IdsOf(messages) \cap IdsOf(messages') :
              (x # y /\ Before(messages', x, y)) => Before(messages, x, y)
        /\ (lastOp'.op \in Posts /\ ~lastOp'.known) =>
              messages'[Len(messages')].id = lastOp'.id ]_vars

===========================================================================
